---------------------------- MODULE Spec2Model ----------------------------
(***************************************************************************)
(* Model of the URL toolkit of Audika-UTM-Master:                          *)
(*   splitUrl / mergeUrl        (src/unnamed/part_000, utils/urlUtils)     *)
(*   detectBestUrlColumn        (src/App.tsx)                              *)
(*                                                                         *)
(* A JavaScript string is modelled as a sequence of one-character strings, *)
(* so that trimming, searching, percent-encoding and percent-decoding are  *)
(* computed character by character.  Only printable ASCII is modelled.     *)
(* A JavaScript object (Record<string,string>) is modelled as a sequence   *)
(* of <<key, value>> pairs with pairwise distinct keys, in insertion       *)
(* order (no key of the model is an integer-like string, so insertion      *)
(* order is the enumeration order of Object.entries / Object.keys).        *)
(***************************************************************************)
EXTENDS Integers, Sequences, FiniteSets, TLC

(***************************************************************************)
(* Strings                                                                 *)
(***************************************************************************)

\* The printable ASCII characters, Ascii[i] has code i + 31 (code 96, the grave
\* accent, is spelled out).
Ascii ==
  << " ", "!", "\"", "#", "$", "%", "&", "'", "(", ")", "*", "+", ",", "-", ".", "/",
     "0", "1", "2", "3", "4", "5", "6", "7", "8", "9", ":", ";", "<", "=", ">", "?",
     "@", "A", "B", "C", "D", "E", "F", "G", "H", "I", "J", "K", "L", "M", "N", "O",
     "P", "Q", "R", "S", "T", "U", "V", "W", "X", "Y", "Z", "[", "\\", "]", "^", "_",
     "grave", "a", "b", "c", "d", "e", "f", "g", "h", "i", "j", "k", "l", "m", "n", "o",
     "p", "q", "r", "s", "t", "u", "v", "w", "x", "y", "z", "{", "|", "}", "~" >>

\* Code unit of a character (String.prototype.charCodeAt).
CharCode(c) == 31 + (CHOOSE i \in 1..Len(Ascii) : Ascii[i] = c)

\* Character of a byte; a byte outside printable ASCII is kept as an opaque symbol.
CharOfByte(b) == IF b \in 32..126 THEN Ascii[b - 31] ELSE "\\x" \o ToString(b)

\* The lower-case letter of every upper-case letter (code + 32).
LowerOfUpper == [c \in {Ascii[i] : i \in 34..59} |-> CharOfByte(CharCode(c) + 32)]

\* String.prototype.toLowerCase, one character.
LowerChar(c) == IF c \in DOMAIN LowerOfUpper THEN LowerOfUpper[c] ELSE c

\* String.prototype.toLowerCase.
toLowerCase(s) == [i \in 1..Len(s) |-> LowerChar(s[i])]

\* String.prototype.includes.
includes(s, sub) ==
  \E i \in 0..(Len(s) - Len(sub)) : SubSeq(s, i + 1, i + Len(sub)) = sub

\* String.prototype.startsWith.
startsWith(s, pre) == Len(s) >= Len(pre) /\ SubSeq(s, 1, Len(pre)) = pre

\* String.prototype.indexOf for a single character, 0-based, -1 when absent.
indexOf(s, c) ==
  IF \E i \in 1..Len(s) : s[i] = c
  THEN (CHOOSE i \in 1..Len(s) : s[i] = c /\ \A j \in 1..(i - 1) : s[j] # c) - 1
  ELSE -1

\* String.prototype.substring(from, to), 0-based, to exclusive.
substring(s, from, to) == SubSeq(s, from + 1, to)

\* White space removed by String.prototype.trim.
IsSpace(c) == c \in {" ", "\t", "\n", "\r"}

\* String.prototype.trim.
trim(s) ==
  IF \A i \in 1..Len(s) : IsSpace(s[i]) THEN << >>
  ELSE LET first == CHOOSE i \in 1..Len(s) :
                      ~IsSpace(s[i]) /\ \A j \in 1..(i - 1) : IsSpace(s[j])
           last  == CHOOSE i \in 1..Len(s) :
                      ~IsSpace(s[i]) /\ \A j \in (i + 1)..Len(s) : IsSpace(s[j])
       IN  SubSeq(s, first, last)

\* String.prototype.split(sep) for a single-character separator.
RECURSIVE split(_, _)
split(s, sep) ==
  LET i == indexOf(s, sep)
  IN  IF i = -1 THEN << s >>
      ELSE << substring(s, 0, i) >> \o split(substring(s, i + 1, Len(s)), sep)

\* Concatenation of a sequence of strings.
RECURSIVE Flatten(_)
Flatten(ss) == IF ss = << >> THEN << >> ELSE Head(ss) \o Flatten(Tail(ss))

\* Array.prototype.join.
RECURSIVE join(_, _)
join(ss, sep) ==
  IF ss = << >> THEN << >>
  ELSE IF Len(ss) = 1 THEN ss[1]
  ELSE ss[1] \o sep \o join(Tail(ss), sep)

(***************************************************************************)
(* Objects: Record<string, string> as a sequence of <<key, value>>         *)
(***************************************************************************)

\* Object.keys.
ObjKeys(o) == [i \in 1..Len(o) |-> o[i][1]]

\* The own property names as a set.
KeySet(o) == {o[i][1] : i \in 1..Len(o)}

\* o[k] for an own property k.
ObjGet(o, k) == o[CHOOSE i \in 1..Len(o) : o[i][1] = k][2]

\* o[k] = v: overwrite in place, or append a new property.
ObjSet(o, k, v) ==
  IF k \in KeySet(o)
  THEN [i \in 1..Len(o) |-> IF o[i][1] = k THEN << k, v >> ELSE o[i]]
  ELSE Append(o, << k, v >>)

\* The mapping an object denotes: its set of key/value pairs.
AsMap(o) == {o[i] : i \in 1..Len(o)}

(***************************************************************************)
(* URLSearchParams (the platform's application/x-www-form-urlencoded codec)*)
(* A URLSearchParams object is its list of <<name, value>> tuples.         *)
(***************************************************************************)

HexDigits == << "0", "1", "2", "3", "4", "5", "6", "7", "8", "9", "A", "B", "C", "D", "E", "F" >>

IsHexDigit(c) == \E i \in 1..16 : HexDigits[i] = c \/ LowerChar(HexDigits[i]) = c

HexVal(c) == (CHOOSE i \in 1..16 : HexDigits[i] = c \/ LowerChar(HexDigits[i]) = c) - 1

\* Percent-decode: %XY with two hex digits is one byte, any other '%' stays as it is.
RECURSIVE percentDecode(_)
percentDecode(s) ==
  IF s = << >> THEN << >>
  ELSE IF s[1] = "%" /\ Len(s) >= 3 /\ IsHexDigit(s[2]) /\ IsHexDigit(s[3])
       THEN << CharOfByte(16 * HexVal(s[2]) + HexVal(s[3])) >>
              \o percentDecode(SubSeq(s, 4, Len(s)))
       ELSE << s[1] >> \o percentDecode(Tail(s))

\* plusToSpace that leaves '+' alone.
plusToSpace_Kept(s) == s

\* In a urlencoded string '+' stands for a space.
plusToSpace(s) == [i \in 1..Len(s) |-> IF s[i] = "+" THEN " " ELSE s[i]]

\* One '&'-separated piece of a query: name before the first '=', value after it.
parsePair(piece) ==
  LET eq == indexOf(piece, "=")
      name  == IF eq = -1 THEN piece ELSE substring(piece, 0, eq)
      value == IF eq = -1 THEN << >> ELSE substring(piece, eq + 1, Len(piece))
  IN  << percentDecode(plusToSpace(name)), percentDecode(plusToSpace(value)) >>

\* new URLSearchParams(init: string): one leading '?' is dropped, empty pieces
\* are skipped, every other piece is a tuple (duplicates are kept).
URLSearchParamsOf(init) ==
  LET q      == IF startsWith(init, << "?" >>) THEN Tail(init) ELSE init
      pieces == SelectSeq(split(q, "&"), LAMBDA piece : piece # << >>)
  IN  [i \in 1..Len(pieces) |-> parsePair(pieces[i])]

\* The characters the urlencoded serializer leaves as they are.
IsUnreserved(c) ==
  \/ \E i \in 17..26 : Ascii[i] = c
  \/ \E i \in 34..59 : Ascii[i] = c
  \/ \E i \in 66..91 : Ascii[i] = c
  \/ c \in {"*", "-", ".", "_"}

\* encodeChar without the escape of '%' itself.
encodeChar_PercentKept(c) ==
  IF IsUnreserved(c) \/ c = "%" THEN << c >>
  ELSE IF c = " " THEN << "+" >>
  ELSE << "%", HexDigits[(CharCode(c) \div 16) + 1], HexDigits[(CharCode(c) % 16) + 1] >>

\* The urlencoded serializer, one character.
encodeChar(c) ==
  IF IsUnreserved(c) THEN << c >>
  ELSE IF c = " " THEN << "+" >>
  ELSE << "%", HexDigits[(CharCode(c) \div 16) + 1], HexDigits[(CharCode(c) % 16) + 1] >>

\* The urlencoded serializer, one string.
encode(s) == Flatten([i \in 1..Len(s) |-> encodeChar(s[i])])

\* URLSearchParams.prototype.toString.
paramsToString(list) ==
  join([i \in 1..Len(list) |-> encode(list[i][1]) \o << "=" >> \o encode(list[i][2])],
       << "&" >>)

\* URLSearchParams.prototype.set: the first tuple named name gets the value and
\* the other tuples of that name are removed; without one, a tuple is appended.
paramsSet(list, name, value) ==
  IF \E i \in 1..Len(list) : list[i][1] = name
  THEN LET first == CHOOSE i \in 1..Len(list) :
                      list[i][1] = name /\ \A j \in 1..(i - 1) : list[j][1] # name
           kept  == SelectSeq([i \in 1..Len(list) |-> << i, list[i] >>],
                              LAMBDA e : e[2][1] # name \/ e[1] = first)
       IN  [i \in 1..Len(kept) |->
              IF kept[i][1] = first THEN << name, value >> ELSE kept[i][2]]
  ELSE Append(list, << name, value >>)

(***************************************************************************)
(* splitUrl                                                                *)
(***************************************************************************)

\* urlWithoutFragmentOf that keeps the fragment.
urlWithoutFragmentOf_Whole(trimmedUrl) == trimmedUrl

\* const [urlWithoutFragment] = trimmedUrl.split('#')
urlWithoutFragmentOf(trimmedUrl) == split(trimmedUrl, "#")[1]

\* isNakedQuery without the utm_ exception.
isNakedQuery_NoUtm(urlWithoutFragment) ==
  /\ includes(urlWithoutFragment, << "=" >>)
  /\ ~includes(urlWithoutFragment, << "." >>)
  /\ ~includes(urlWithoutFragment, << "/" >>)

\* The "naked" query string heuristic of the else branch.
isNakedQuery(urlWithoutFragment) ==
  LET hasEquals     == includes(urlWithoutFragment, << "=" >>)
      hasStructure  == \/ includes(urlWithoutFragment, << "." >>)
                       \/ includes(urlWithoutFragment, << "/" >>)
      isExplicitUtm == includes(toLowerCase(urlWithoutFragment), << "u", "t", "m", "_" >>)
  IN  hasEquals /\ (~hasStructure \/ isExplicitUtm)

\* cleanUrlNoQuery that starts from the fragment-stripped string.
cleanUrlNoQuery_Stripped(trimmedUrl, urlWithoutFragment) ==
  IF isNakedQuery(urlWithoutFragment) THEN << >> ELSE urlWithoutFragment

\* cleanUrl for a string without a '?' before its fragment.
cleanUrlNoQuery(trimmedUrl, urlWithoutFragment) ==
  IF isNakedQuery(urlWithoutFragment) THEN << >> ELSE trimmedUrl

\* locateQuery splitting at the last '?' instead of the first.
locateQuery_LastQuestionMark(trimmedUrl) ==
  LET urlWithoutFragment == urlWithoutFragmentOf(trimmedUrl)
  IN  IF includes(urlWithoutFragment, << "?" >>)
      THEN LET queryIndex == (CHOOSE i \in 1..Len(urlWithoutFragment) :
                                /\ urlWithoutFragment[i] = "?"
                                /\ \A k \in (i + 1)..Len(urlWithoutFragment) :
                                     urlWithoutFragment[k] # "?") - 1
           IN  [cleanUrl   |-> substring(urlWithoutFragment, 0, queryIndex),
                searchPart |-> substring(urlWithoutFragment, queryIndex + 1,
                                         Len(urlWithoutFragment))]
      ELSE [cleanUrl   |-> cleanUrlNoQuery(trimmedUrl, urlWithoutFragment),
            searchPart |-> IF isNakedQuery(urlWithoutFragment)
                           THEN urlWithoutFragment ELSE << >>]

\* cleanUrl and searchPart as the if/else on '?' leaves them.
locateQuery(trimmedUrl) ==
  LET urlWithoutFragment == urlWithoutFragmentOf(trimmedUrl)
  IN  IF includes(urlWithoutFragment, << "?" >>)
      THEN LET queryIndex == indexOf(urlWithoutFragment, "?")
           IN  [cleanUrl   |-> substring(urlWithoutFragment, 0, queryIndex),
                searchPart |-> substring(urlWithoutFragment, queryIndex + 1,
                                         Len(urlWithoutFragment))]
      ELSE [cleanUrl   |-> cleanUrlNoQuery(trimmedUrl, urlWithoutFragment),
            searchPart |-> IF isNakedQuery(urlWithoutFragment)
                           THEN urlWithoutFragment ELSE << >>]

\* collectParams without the test of the key.
RECURSIVE collectParams_EmptyKeyKept(_, _)
collectParams_EmptyKeyKept(list, extractedParams) ==
  IF list = << >> THEN extractedParams
  ELSE collectParams_EmptyKeyKept(Tail(list),
         ObjSet(extractedParams, list[1][1], list[1][2]))

\* params.forEach((value, key) => { if (key) extractedParams[key] = value })
RECURSIVE collectParams(_, _)
collectParams(list, extractedParams) ==
  IF list = << >> THEN extractedParams
  ELSE collectParams(Tail(list),
         IF list[1][1] # << >>
         THEN ObjSet(extractedParams, list[1][1], list[1][2])
         ELSE extractedParams)

\* The object built from searchPart.
extractParams(searchPart) ==
  IF searchPart # << >>
  THEN collectParams(URLSearchParamsOf(searchPart), << >>)
  ELSE << >>

\* splitUrl(urlStr) for a string argument.
splitUrl(urlStr) ==
  IF urlStr = << >> THEN [cleanUrl |-> << >>, params |-> << >>]
  ELSE LET located == locateQuery(trim(urlStr))
       IN  [cleanUrl |-> located.cleanUrl,
            params   |-> extractParams(located.searchPart)]

(***************************************************************************)
(* mergeUrl                                                                *)
(***************************************************************************)

\* hasValue without the trim.
hasValue_NoTrim(value) == value # << >>

\* if (value && value.trim() !== '')
hasValue(value) == value # << >> /\ trim(value) # << >>

\* Object.entries(parameters).forEach(... params.set(key, value) ...)
RECURSIVE setParams(_, _)
setParams(entries, params) ==
  IF entries = << >> THEN params
  ELSE setParams(Tail(entries),
         IF hasValue(entries[1][2])
         THEN paramsSet(params, entries[1][1], entries[1][2])
         ELSE params)

\* const queryString = params.toString()
queryStringOf(parameters) == paramsToString(setParams(parameters, << >>))

\* connector that is always '?'.
connector_AlwaysQuestion(cleanUrl) == << "?" >>

\* cleanUrl.includes('?') ? '&' : '?'
connector(cleanUrl) == IF includes(cleanUrl, << "?" >>) THEN << "&" >> ELSE << "?" >>

\* appendQuery without the test for an empty query string.
appendQuery_Always(cleanUrl, queryString) == cleanUrl \o connector(cleanUrl) \o queryString

\* The template literal of the return statement.
appendQuery(cleanUrl, queryString) ==
  IF queryString # << >> THEN cleanUrl \o connector(cleanUrl) \o queryString ELSE cleanUrl

\* mergeUrl(cleanUrl, parameters); URLSearchParams does not throw on strings.
mergeUrl(cleanUrl, parameters) ==
  IF cleanUrl = << >> /\ Len(parameters) = 0 THEN << >>
  ELSE LET queryString == queryStringOf(parameters)
       IN  IF cleanUrl = << >> THEN queryString
           ELSE appendQuery(cleanUrl, queryString)

(***************************************************************************)
(* detectBestUrlColumn                                                     *)
(* A FileRow is a function from column names to cell strings; a column the *)
(* row lacks reads as undefined.  A score is a rational number with        *)
(* denominator sampleSize; the model keeps score * sampleSize, an integer, *)
(* and compares scaled scores (rounding of the doubles is not modelled).   *)
(***************************************************************************)

\* Column names: no rule, the 5-point rule, the stacking 20- and 8-point rules.
HeaderNames ==
  { << "n", "a", "m", "e" >>, << "g", "c", "l", "i", "d" >>,
    << "U", "t", "m", "_", "S", "o", "u", "r", "c", "e" >> }

\* Cell values: empty, a bare query, and a padded URL with every content pattern.
CellValues ==
  { << >>, << "a", "?", "b", "=", "1" >>,
    << " ", "w", "w", "w", ".", "a", "?", "U", "t", "m", "_", "i", "d", "=", "1", "&",
       "g", "c", "l", "i", "d", "=", "2" >> }

\* The column name with the most header-name points: every rule on a part of the
\* name matches it (the 25- and 5-point rules take whole names that match no other).
StrongestName ==
  << "u", "t", "m", "_", "l", "a", "n", "d", "i", "n", "g", "_", "p", "a", "g", "e",
     "_", "d", "e", "s", "t", "i", "n", "a", "t", "i", "o", "n", "_", "c", "a", "m",
     "p", "a", "i", "g", "n", "_", "s", "o", "u", "r", "c", "e" >>

\* Names of the columns that stand beside a neutral one: the strongest name, a
\* 25-point name and the names above with points.
RivalNames ==
  { StrongestName, << "U", "R", "L" >>, << "g", "c", "l", "i", "d" >>,
    << "U", "t", "m", "_", "S", "o", "u", "r", "c", "e" >> }

\* The neutral column name.
NeutralName == << "n", "a", "m", "e" >>

\* A cell with '&', '=' and 'utm_source=' and nothing else that counts.
SignalCell ==
  << "a", "=", "1", "&", "u", "t", "m", "_", "s", "o", "u", "r", "c", "e", "=", "x" >>

\* Math.min(data.length, 25): the limit on the sample.
SampleLimit == 25

\* const sampleSize = Math.min(data.length, 25)
sampleSizeOf(data) == IF Len(data) < SampleLimit THEN Len(data) ELSE SampleLimit

\* sampleOf without the slice: every row is scanned.
sampleOf_All(data) == data

\* data.slice(0, sampleSize)
sampleOf(data) == SubSeq(data, 1, sampleSizeOf(data))

\* row[h] || ''
cellOf(row, h) == IF h \in DOMAIN row THEN row[h] ELSE << >>

\* headerScore with the rules as alternatives: only the first rule that matches
\* gives its points.
headerScore_FirstRuleOnly(h) ==
  LET lowerH == toLowerCase(h)
  IN  IF lowerH \in { << "u", "r", "l" >>,
                      << "o", "r", "i", "g", "i", "n", "a", "l", "_", "u", "r", "l" >>,
                      << "l", "i", "n", "k" >> } THEN 25
      ELSE IF includes(lowerH, << "u", "t", "m" >>) THEN 20
      ELSE IF includes(lowerH, << "l", "a", "n", "d", "i", "n", "g", "_", "p", "a", "g", "e" >>)
           THEN 15
      ELSE IF includes(lowerH, << "d", "e", "s", "t", "i", "n", "a", "t", "i", "o", "n" >>)
           THEN 12
      ELSE IF includes(lowerH, << "c", "a", "m", "p", "a", "i", "g", "n" >>) THEN 10
      ELSE IF \/ includes(lowerH, << "s", "o", "u", "r", "c", "e" >>)
              \/ includes(lowerH, << "m", "e", "d", "i", "u", "m" >>) THEN 8
      ELSE IF lowerH \in { << "g" >>, << "g", "c", "l", "i", "d" >>,
                           << "c", "l", "i", "c", "k", "_", "i", "d" >> } THEN 5
      ELSE 0

\* Points of the header-name rules; every rule that matches adds its points.
headerScore(h) ==
  LET lowerH == toLowerCase(h)
  IN    (IF lowerH \in { << "u", "r", "l" >>,
                         << "o", "r", "i", "g", "i", "n", "a", "l", "_", "u", "r", "l" >>,
                         << "l", "i", "n", "k" >> } THEN 25 ELSE 0)
      + (IF includes(lowerH, << "u", "t", "m" >>) THEN 20 ELSE 0)
      + (IF includes(lowerH, << "l", "a", "n", "d", "i", "n", "g", "_", "p", "a", "g", "e" >>)
         THEN 15 ELSE 0)
      + (IF includes(lowerH, << "d", "e", "s", "t", "i", "n", "a", "t", "i", "o", "n" >>)
         THEN 12 ELSE 0)
      + (IF includes(lowerH, << "c", "a", "m", "p", "a", "i", "g", "n" >>) THEN 10 ELSE 0)
      + (IF \/ includes(lowerH, << "s", "o", "u", "r", "c", "e" >>)
            \/ includes(lowerH, << "m", "e", "d", "i", "u", "m" >>) THEN 8 ELSE 0)
      + (IF lowerH \in { << "g" >>, << "g", "c", "l", "i", "d" >>,
                         << "c", "l", "i", "c", "k", "_", "i", "d" >> } THEN 5 ELSE 0)

\* headerScore of the column names of the model, computed once.
HeaderScoreTable == [h \in HeaderNames \cup RivalNames |-> headerScore(h)]

\* The header-name points of h (let score = 0; ... score += ...).
headerPoints(h) == IF h \in DOMAIN HeaderScoreTable THEN HeaderScoreTable[h] ELSE headerScore(h)

\* Explicit UTM pattern.
isUtmMatch(val) ==
  LET lowerVal == toLowerCase(val)
  IN  \/ includes(lowerVal, << "u", "t", "m", "_", "s", "o", "u", "r", "c", "e", "=" >>)
      \/ includes(lowerVal, << "u", "t", "m", "_", "m", "e", "d", "i", "u", "m", "=" >>)
      \/ includes(lowerVal, << "u", "t", "m", "_", "c", "a", "m", "p", "a", "i", "g", "n", "=" >>)
      \/ includes(lowerVal, << "u", "t", "m", "_", "i", "d", "=" >>)

\* /^https?:\/\//i, /^www\./i or a leading "/?".
isUrlMatch(val) ==
  LET lowerVal == toLowerCase(val)
  IN  \/ startsWith(lowerVal, << "h", "t", "t", "p", ":", "/", "/" >>)
      \/ startsWith(lowerVal, << "h", "t", "t", "p", "s", ":", "/", "/" >>)
      \/ startsWith(lowerVal, << "w", "w", "w", "." >>)
      \/ startsWith(val, << "/", "?" >>)

\* gclid=, fbclid= or msclkid=.
isTrackingIdMatch(val) ==
  LET lowerVal == toLowerCase(val)
  IN  \/ includes(lowerVal, << "g", "c", "l", "i", "d", "=" >>)
      \/ includes(lowerVal, << "f", "b", "c", "l", "i", "d", "=" >>)
      \/ includes(lowerVal, << "m", "s", "c", "l", "k", "i", "d", "=" >>)

\* General query string structure.
isQueryStringMatch(val) == includes(val, << "?" >>) /\ includes(val, << "=" >>)

\* '&' together with '='.
isAmpersandMatch(val) == includes(val, << "&" >>) /\ includes(val, << "=" >>)

\* The body of sample.forEach for one cell: the cell is trimmed, an empty one is
\* skipped, any other one is tested against the five patterns.
cellMatches(cell) ==
  LET val == trim(cell)
  IN  [utm         |-> val # << >> /\ isUtmMatch(val),
       url         |-> val # << >> /\ isUrlMatch(val),
       trackingId  |-> val # << >> /\ isTrackingIdMatch(val),
       queryString |-> val # << >> /\ isQueryStringMatch(val),
       ampersand   |-> val # << >> /\ isAmpersandMatch(val)]

\* cellMatches of the cell values of the model, computed once.
CellMatchTable == [cell \in CellValues \cup {SignalCell} |-> cellMatches(cell)]

\* The pattern tests of a cell.
matchesOf(cell) ==
  IF cell \in DOMAIN CellMatchTable THEN CellMatchTable[cell] ELSE cellMatches(cell)

utmMatchCount(sample, h) ==
  Cardinality({i \in 1..Len(sample) : matchesOf(cellOf(sample[i], h)).utm})

urlMatchCount(sample, h) ==
  Cardinality({i \in 1..Len(sample) : matchesOf(cellOf(sample[i], h)).url})

trackingIdMatchCount(sample, h) ==
  Cardinality({i \in 1..Len(sample) : matchesOf(cellOf(sample[i], h)).trackingId})

queryStringMatchCount(sample, h) ==
  Cardinality({i \in 1..Len(sample) : matchesOf(cellOf(sample[i], h)).queryString})

ampersandMatchCount(sample, h) ==
  Cardinality({i \in 1..Len(sample) : matchesOf(cellOf(sample[i], h)).ampersand})

\* contentPoints with every weight 1.
contentPoints_Unweighted(sample, h) ==
    utmMatchCount(sample, h)
  + urlMatchCount(sample, h)
  + trackingIdMatchCount(sample, h)
  + queryStringMatchCount(sample, h)
  + ampersandMatchCount(sample, h)

\* The weighted content counts of column h; the content score times sampleSize.
contentPoints(sample, h) ==
    utmMatchCount(sample, h) * 50
  + urlMatchCount(sample, h) * 30
  + trackingIdMatchCount(sample, h) * 20
  + queryStringMatchCount(sample, h) * 10
  + ampersandMatchCount(sample, h) * 25

\* scaledScore without the header-name points.
scaledScore_ContentOnly(h, data) == contentPoints(sampleOf(data), h)

\* score of header h, times sampleSize.
scaledScore(h, data) ==
  headerPoints(h) * sampleSizeOf(data) + contentPoints(sampleOf(data), h)

\* beats with >= for >.
beats_OrEqual(score, highestScore) == score >= highestScore

\* if (score > highestScore): does a score replace the best one so far.
beats(score, highestScore) == score > highestScore

\* headers.forEach: the best column and its scaled score after the headers seen.
RECURSIVE scanHeaders(_, _, _)
scanHeaders(headers, data, best) ==
  IF headers = << >> THEN best
  ELSE LET score == scaledScore(Head(headers), data)
       IN  scanHeaders(Tail(headers), data,
             IF beats(score, best.highestScore)
             THEN [bestCol |-> Head(headers), highestScore |-> score]
             ELSE best)

\* isConfident with >= for >.
isConfident_AtLeast(highestScore, sampleSize) == highestScore >= 5 * sampleSize

\* Threshold to avoid selecting completely irrelevant columns: highestScore > 5.
isConfident(highestScore, sampleSize) == highestScore > 5 * sampleSize

\* detectBestUrlColumn(headers, data); highestScore starts at -1.
detectBestUrlColumn(headers, data) ==
  IF Len(data) = 0 THEN << >>
  ELSE LET best == scanHeaders(headers, data,
                     [bestCol |-> << >>, highestScore |-> -1 * sampleSizeOf(data)])
       IN  IF isConfident(best.highestScore, sampleSizeOf(data))
           THEN best.bestCol ELSE << >>

(***************************************************************************)
(* The table editor (App)                                                  *)
(* A FileRow is a function from column names to cells.  A property whose   *)
(* value is undefined reads like a missing one (row[h] || ''), so it is    *)
(* modelled as missing.  columnWidths is a function from column names to   *)
(* pixels.  null (fileName, error, draggedHeader) is the empty text: the   *)
(* code only tests these values for truthiness or hands them on.  The      *)
(* parsers (Papa.parse, XLSX) are libraries: a file carries the rows and   *)
(* the field names they return for it.                                     *)
(***************************************************************************)

\* The elements of an array.
Range(seq) == {seq[i] : i \in 1..Len(seq)}

\* array.filter(x => x !== e)
without(seq, e) == SelectSeq(seq, LAMBDA x : x # e)

\* const { [h]: _, ...rest } = obj
omit(obj, h) == [k \in (DOMAIN obj) \ {h} |-> obj[k]]

\* The literal 'Clean URL'.
CleanUrlHeader == << "C", "l", "e", "a", "n", " ", "U", "R", "L" >>

\* A URL with two parameters.
UrlCell == << "a", "?", "k", "=", "v", "&", "x", "=", "1" >>

\* A naked query, one of its keys being the name of the Clean URL column.
QueryCell == << "x", "=", "2", "&", "C", "l", "e", "a", "n", "+", "U", "R", "L", "=", "z" >>

\* The cells of the files the editor loads: a URL, a naked query, a blank cell
\* and an empty one.
FileCells == { UrlCell, QueryCell, << " " >>, << >> }

\* splitUrl of the cell values of the loaded files, computed once.
SplitTable == [cell \in FileCells |-> splitUrl(cell)]

\* splitUrl(url)
splitUrlOf(url) == IF url \in DOMAIN SplitTable THEN SplitTable[url] ELSE splitUrl(url)

\* Math.max(...)
maxOf(S) == CHOOSE x \in S : \A y \in S : y <= x

\* calculateInitialWidths(headers, data): 9 pixels a character plus 48, between
\* 120 and 500, over the header and the cells of the first 15 rows.
calculateInitialWidths(hs, rows) ==
  [h \in Range(hs) |->
     LET sampleRows == SubSeq(rows, 1, IF Len(rows) < 15 THEN Len(rows) ELSE 15)
         maxChars == maxOf({Len(h)} \cup {Len(cellOf(sampleRows[i], h)) : i \in 1..Len(sampleRows)})
         wanted == maxChars * 9 + 48
     IN  IF wanted < 120 THEN 120 ELSE IF wanted > 500 THEN 500 ELSE wanted]

\* Math.max(80, startWidth + deltaX)
newWidthOf(startWidth, deltaX) ==
  IF startWidth + deltaX < 80 THEN 80 ELSE startWidth + deltaX

\* { ...prev, [header]: newWidth }
resized(widths, header, newWidth) == (header :> newWidth) @@ widths

\* pushed without the slice: the entries after the index are kept.
pushed_NoSlice(hist, index, rows, hs, widths) ==
  Append(hist, [data |-> rows, headers |-> hs, columnWidths |-> widths])

\* pushToHistory: the entries up to historyIndex, then the new one.
pushed(hist, index, rows, hs, widths) ==
  Append(SubSeq(hist, 1, index + 1), [data |-> rows, headers |-> hs, columnWidths |-> widths])

\* deleteColumn: the row without the column.
deleteFromRow(row, headerToDelete) == omit(row, headerToDelete)

\* renameColumn without the test for an existing name.
renameRejected_Never(hs, oldName, newName) ==
  newName = << >> \/ trim(newName) = << >> \/ oldName = newName

\* renameColumn returns early, changing nothing: the new name is empty, blank,
\* the old name, or the name of a column.
renameRejected(hs, oldName, newName) ==
  \/ newName = << >> \/ trim(newName) = << >> \/ oldName = newName
  \/ newName \in Range(hs)

\* const { [oldName]: value, ...rest } = row; return { ...rest, [newName]: value }
renameInRow(row, oldName, newName) ==
  IF oldName \in DOMAIN row
  THEN (newName :> row[oldName]) @@ omit(row, oldName)
  ELSE omit(row, newName)

\* newWidths[newName] = newWidths[oldName]; delete newWidths[oldName]
renameInWidths(widths, oldName, newName) ==
  IF oldName \in DOMAIN widths
  THEN (newName :> widths[oldName]) @@ omit(widths, oldName)
  ELSE omit(widths, newName)

\* The parameters object as properties of a row.
RowOfParams(params) == [k \in KeySet(params) |-> ObjGet(params, k)]

\* { ...row, 'Clean URL': cleanUrl, ...params }
splitRow(row, column) ==
  LET r == splitUrlOf(cellOf(row, column))
  IN  RowOfParams(r.params) @@ (CleanUrlHeader :> r.cleanUrl) @@ row

\* newHeaders.push(key) whether or not it is there.
pushNew_Always(hs, key) == Append(hs, key)

\* if (!newHeaders.includes(key)) newHeaders.push(key)
pushNew(hs, key) == IF key \in Range(hs) THEN hs ELSE Append(hs, key)

\* keys.forEach(key => ...) over pushNew, and over discoveredKeys.add.
RECURSIVE pushAll(_, _)
pushAll(hs, keys) ==
  IF keys = << >> THEN hs ELSE pushAll(pushNew(hs, Head(keys)), Tail(keys))

\* discoveredKeys after the rows: the keys of the parameters of every row, a Set
\* in insertion order.
RECURSIVE discoveredKeysOf(_, _, _)
discoveredKeysOf(rows, column, discoveredKeys) ==
  IF rows = << >> THEN discoveredKeys
  ELSE LET params == splitUrlOf(cellOf(Head(rows), column)).params
           added == SelectSeq(ObjKeys(params), LAMBDA k : k \notin Range(discoveredKeys))
       IN  discoveredKeysOf(Tail(rows), column, discoveredKeys \o added)

\* newHeaders of processSplit: 'Clean URL', then the discovered keys, each if new.
splitHeaders(hs, rows, column) ==
  pushAll(pushNew(hs, CleanUrlHeader), discoveredKeysOf(rows, column, << >>))

\* mergeSeparator: the initial separator of the simple mode.
mergeSeparator == << " " >>

\* mergeSourceColumns.forEach(col => { if (val) params.set(col, val) })
RECURSIVE setColumns(_, _, _)
setColumns(row, cols, params) ==
  IF cols = << >> THEN params
  ELSE LET val == cellOf(row, Head(cols))
       IN  setColumns(row, Tail(cols),
             IF val # << >> THEN paramsSet(params, Head(cols), val) ELSE params)

\* The result of processColumnMerge for one row.
mergedCell(row, mode, cols, baseColumn) ==
  IF mode = "simple"
  THEN join(SelectSeq([i \in 1..Len(cols) |-> cellOf(row, cols[i])], LAMBDA v : v # << >>),
            mergeSeparator)
  ELSE LET queryString == paramsToString(setColumns(row, cols, << >>))
           base == cellOf(row, baseColumn)
       IN  IF mode = "utm_params" \/ base = << >> THEN queryString
           ELSE IF queryString # << >>
                THEN base \o (IF includes(base, << "?" >>) THEN << "&" >> ELSE << "?" >>) \o queryString
                ELSE base

\* { ...row, [mergeTargetColumn]: result }
mergeRow(row, mode, cols, target, baseColumn) ==
  (target :> mergedCell(row, mode, cols, baseColumn)) @@ row

\* newHeaders.splice(fromIndex, 1): a negative index counts from the end.
spliceOut(hs, fromIndex) ==
  LET at == IF fromIndex < 0 THEN Len(hs) + fromIndex ELSE fromIndex
  IN  IF at < 0 \/ at >= Len(hs) THEN hs
      ELSE SubSeq(hs, 1, at) \o SubSeq(hs, at + 2, Len(hs))

\* newHeaders.splice(toIndex, 0, item): a negative index counts from the end.
spliceIn(hs, toIndex, item) ==
  LET raw == IF toIndex < 0 THEN Len(hs) + toIndex ELSE toIndex
      at == IF raw < 0 THEN 0 ELSE IF raw > Len(hs) THEN Len(hs) ELSE raw
  IN  SubSeq(hs, 1, at) \o << item >> \o SubSeq(hs, at + 1, Len(hs))

\* headers.indexOf(h): the 0-based position, or -1.
headerIndexOf(hs, h) ==
  IF h \in Range(hs) THEN (CHOOSE i \in 1..Len(hs) : hs[i] = h /\ \A j \in 1..(i - 1) : hs[j] # h) - 1
  ELSE -1

\* newHeaders of handleColDrop.
droppedHeaders(hs, dragged, targetHeader) ==
  LET fromIndex == headerIndexOf(hs, dragged)
      toIndex == headerIndexOf(hs, targetHeader)
  IN  spliceIn(spliceOut(hs, fromIndex), toIndex, dragged)

(***************************************************************************)
(* Inputs                                                                  *)
(***************************************************************************)

\* Longest input of splitUrl, in tokens.
MaxUrlTokens == 4

\* Most properties of a parameters object.
MaxParams == 2

\* Most columns of a table, and most rows.
MaxHeaders == 2
MaxRows == 2

\* The pieces the inputs of splitUrl are concatenated from.
UrlTokens ==
  { << "a" >>, << "=" >>, << "&" >>, << "?" >>, << "#" >>, << "." >>, << "/" >>,
    << " " >>, << "U", "t", "m", "_" >>, << "k", "=", "v" >> }

\* All concatenations of at most n tokens.
StringsOf(tokens, n) == {Flatten(ts) : ts \in UNION {[1..k -> tokens] : k \in 0..n}}

\* Key=value pairs a raw query is joined from: one key twice with two values,
\* and a pair with an empty key.
PairTokens ==
  { << "k", "=", "v", "&" >>, << "k", "=", "a", "&" >>, << "=", "a", "&" >> }

\* Most pairs of a raw query joined from PairTokens.
MaxPairs == 3

UrlInputs == StringsOf(UrlTokens, MaxUrlTokens) \cup StringsOf(PairTokens, MaxPairs)

\* Arguments of mergeUrl.
BaseUrls ==
  { << >>, << "a" >>, << " ", "a" >>, << "a", "#", "b" >>, << "a", "?", "b", "=", "1" >>,
    << "x", "=", "1" >>, << "a", ".", "b", "/", "c" >> }

ParamKeys ==
  { << >>, << "k" >>, << "a", ".", "b" >>, << "U", "t", "m", "_", "&" >> }

ParamValues ==
  { << >>, << " " >>, << "v" >>, << " ", "=", "&", "%", "4", "1", "+" >> }

\* Objects with at most n properties: pairwise distinct keys, any insertion order.
ObjectsOf(keys, values, n) ==
  {o \in UNION {[1..k -> keys \X values] : k \in 0..n} :
     \A i, j \in 1..Len(o) : i # j => o[i][1] # o[j][1]}

ParamObjects == ObjectsOf(ParamKeys, ParamValues, MaxParams)

\* Header sequences of at most n pairwise distinct names.
HeaderListsOf(names, n) ==
  {hs \in UNION {[1..k -> names] : k \in 0..n} :
     \A i, j \in 1..Len(hs) : i # j => hs[i] # hs[j]}

HeaderLists == HeaderListsOf(HeaderNames, MaxHeaders)

\* The tables of r rows under headers hs: every row has a cell for every header.
TablesOf(hs, r) == [1..r -> [{hs[i] : i \in 1..Len(hs)} -> CellValues]]

\* Header sequences of at most MaxHeaders pairwise distinct names, the neutral name
\* among them, the others from RivalNames.
NeutralHeaderLists ==
  {hs \in HeaderListsOf(RivalNames \cup {NeutralName}, MaxHeaders) :
     \E i \in 1..Len(hs) : hs[i] = NeutralName}

\* The tables of r rows under headers hs whose neutral column holds SignalCell in
\* every row; a cell of another column is empty, blank or a bare query.
SignalTablesOf(hs, r) ==
  [1..r -> {row \in [{hs[i] : i \in 1..Len(hs)} ->
                       {SignalCell, << >>, << " " >>, << "a", "?", "b", "=", "1" >>}] :
              \A h \in DOMAIN row : (row[h] = SignalCell) <=> (h = NeutralName)}]

\* Tables of more than SampleLimit rows under headers hs: SampleLimit copies of
\* one row followed by t copies of another.
LongTablesOf(hs, t) ==
  LET rows == [{hs[i] : i \in 1..Len(hs)} -> CellValues]
  IN  {[i \in 1..(SampleLimit + t) |-> IF i <= SampleLimit THEN p ELSE q] :
         p \in rows, q \in rows}

\* e.clientX - startX of a resize: the handle is pulled far to the left.
DeltaX == -500

\* Most events of a session of the editor, and most file readers in flight.
MaxEvents == 6
MaxReaders == 1

\* The column names of the files.
UrlName == << "u", "r", "l" >>
KName == << "k" >>
PlainName == << "n", "a", "m", "e" >>

\* A file: its name, whether the reader delivers content, and what the parser
\* makes of the content: the field names and the rows.
FileA ==
  [name |-> << "a", ".", "c", "s", "v" >>, result |-> TRUE,
   fields |-> << UrlName, KName >>,
   rows |-> << (UrlName :> UrlCell) @@ (KName :> << " " >>),
               (UrlName :> QueryCell) @@ (KName :> << >>) >>]

FileB ==
  [name |-> << "b", ".", "X", "L", "S", "X" >>, result |-> TRUE,
   fields |-> << PlainName >>,
   rows |-> << (PlainName :> << " " >>) >>]

FileC ==
  [name |-> << "c", ".", "t", "x", "t" >>, result |-> TRUE,
   fields |-> << PlainName >>,
   rows |-> << (PlainName :> << " " >>) >>]

FileD ==
  [name |-> << "d", ".", "c", "s", "v" >>, result |-> FALSE,
   fields |-> << >>,
   rows |-> << >>]

Files == {FileA, FileB, FileC, FileD}

\* The names typed when renaming a column, and as the target of a merge.
NewNames == {KName, CleanUrlHeader}
TargetNames == {KName, << "t" >>}

MergeModes == {"simple", "utm_params", "utm_url"}

(***************************************************************************)
(* State                                                                   *)
(***************************************************************************)

VARIABLES
  op,           \* the call chain performed so far
  urlStr,       \* argument of the last splitUrl
  splitResult,  \* result of the last splitUrl
  firstSplit,   \* result of the splitUrl whose output was merged again
  inCleanUrl,   \* first argument of the last mergeUrl
  inParams,     \* second argument of the last mergeUrl
  merged,       \* result of the last mergeUrl
  headers,      \* the column names of the table given to the detector
  data,         \* the rows of that table
  detected,     \* result of the last detectBestUrlColumn
  fileName,            \* state.fileName
  isLoading,           \* state.isLoading
  error,               \* state.error
  urlColumn,           \* the column to split
  mergeMode,
  mergeSourceColumns,
  mergeTargetColumn,
  baseUrlColumn,
  columnWidths,
  draggedHeader,
  history,
  historyIndex,        \* 0-based as in the code: history[historyIndex + 1] here
  readers,             \* the files whose FileReader has not called onload yet
  errorTimers,         \* the pending timeouts that clear the error
  events,              \* the number of events handled so far
  undone               \* after an undo: the table and the widths it replaced

urlVars == << urlStr, splitResult, firstSplit, inCleanUrl, inParams, merged >>

tableVars == << headers, data, detected >>

fileVars == << fileName, isLoading, error >>

selectionVars ==
  << urlColumn, mergeMode, mergeSourceColumns, mergeTargetColumn, baseUrlColumn >>

historyVars == << history, historyIndex >>

appVars ==
  << fileVars, selectionVars, historyVars, columnWidths, draggedHeader, readers, errorTimers,
     events, undone >>

vars == << op, urlVars, tableVars, appVars >>

NoSplit == [cleanUrl |-> << >>, params |-> << >>]

Init ==
  /\ op = "idle"
  /\ urlStr = << >>
  /\ splitResult = NoSplit
  /\ firstSplit = NoSplit
  /\ inCleanUrl = << >>
  /\ inParams = << >>
  /\ merged = << >>
  /\ headers = << >>
  /\ data = << >>
  /\ detected = << >>
  /\ fileName = << >>
  /\ isLoading = FALSE
  /\ error = ""
  /\ urlColumn = << >>
  /\ mergeMode = "simple"
  /\ mergeSourceColumns = << >>
  /\ mergeTargetColumn = << >>
  /\ baseUrlColumn = << >>
  /\ columnWidths = << >>
  /\ draggedHeader = << >>
  /\ history = << >>
  /\ historyIndex = -1
  /\ readers = << >>
  /\ errorTimers = 0
  /\ events = 0
  /\ undone = << >>

\* splitUrl(u) on a cell value.
Split(u) ==
  /\ op = "idle"
  /\ op' = "split"
  /\ urlStr' = u
  /\ splitResult' = splitUrl(u)
  /\ UNCHANGED << firstSplit, inCleanUrl, inParams, merged >>
  /\ UNCHANGED tableVars
  /\ UNCHANGED appVars

\* mergeUrl(c, p) on given arguments.
Merge(c, p) ==
  /\ op = "idle"
  /\ op' = "merge"
  /\ inCleanUrl' = c
  /\ inParams' = p
  /\ merged' = mergeUrl(c, p)
  /\ UNCHANGED << urlStr, splitResult, firstSplit >>
  /\ UNCHANGED tableVars
  /\ UNCHANGED appVars

\* mergeUrl applied to the result of the last splitUrl.
MergeSplit ==
  /\ op = "split"
  /\ op' = "mergeOfSplit"
  /\ firstSplit' = splitResult
  /\ inCleanUrl' = splitResult.cleanUrl
  /\ inParams' = splitResult.params
  /\ merged' = mergeUrl(splitResult.cleanUrl, splitResult.params)
  /\ UNCHANGED << urlStr, splitResult >>
  /\ UNCHANGED tableVars
  /\ UNCHANGED appVars

\* splitUrl applied to the result of the last mergeUrl.
SplitMerged ==
  /\ op \in {"merge", "mergeOfSplit"}
  /\ op' = IF op = "merge" THEN "splitOfMerge" ELSE "resplit"
  /\ urlStr' = merged
  /\ splitResult' = splitUrl(merged)
  /\ UNCHANGED << firstSplit, inCleanUrl, inParams, merged >>
  /\ UNCHANGED tableVars
  /\ UNCHANGED appVars

\* The next cell.
Reset ==
  /\ op # "idle"
  /\ op' = "idle"
  /\ urlStr' = << >>
  /\ splitResult' = NoSplit
  /\ firstSplit' = NoSplit
  /\ inCleanUrl' = << >>
  /\ inParams' = << >>
  /\ merged' = << >>
  /\ headers' = << >>
  /\ data' = << >>
  /\ detected' = << >>
  /\ UNCHANGED appVars

\* Split a cell, merge the result, split again.
NextSplit ==
  \/ op = "idle" /\ \E u \in UrlInputs : Split(u)
  \/ MergeSplit
  \/ SplitMerged
  \/ Reset

SpecSplit == Init /\ [][NextSplit]_vars

\* Merge a base and parameters, split the result.
NextMerge ==
  \/ op = "idle" /\ \E c \in BaseUrls, p \in ParamObjects : Merge(c, p)
  \/ SplitMerged
  \/ Reset

SpecMerge == Init /\ [][NextMerge]_vars

\* detectBestUrlColumn(hs, d) on a loaded table.
Detect(hs, d) ==
  /\ op = "idle"
  /\ op' = "detect"
  /\ headers' = hs
  /\ data' = d
  /\ detected' = detectBestUrlColumn(hs, d)
  /\ UNCHANGED urlVars
  /\ UNCHANGED appVars

\* Run the detector on a table.
NextDetect ==
  \/ op = "idle" /\ \E hs \in HeaderLists, r \in 0..MaxRows : \E d \in TablesOf(hs, r) : Detect(hs, d)
  \/ op = "idle" /\ \E hs \in HeaderLists, t \in 1..MaxRows : \E d \in LongTablesOf(hs, t) : Detect(hs, d)
  \/ op = "idle" /\ \E hs \in NeutralHeaderLists, r \in 1..MaxRows :
                       \E d \in SignalTablesOf(hs, r) : Detect(hs, d)
  \/ Reset

SpecDetect == Init /\ [][NextDetect]_vars

(***************************************************************************)
(* The handlers of the table editor.  The toolkit and the table are        *)
(* rendered only while state.data is not empty; the upload button and the  *)
(* keyboard shortcuts are always there.                                    *)
(***************************************************************************)

\* state.data.length > 0: the toolkit and the table are on the page.
tableShown == Len(data) > 0

\* file.name.split('.').pop()?.toLowerCase()
extensionOf(name) ==
  LET parts == split(name, ".") IN toLowerCase(parts[Len(parts)])

\* One more event of the session; an undo leaves behind what it replaced.
Event(name) ==
  /\ events < MaxEvents
  /\ events' = events + 1
  /\ op' = name
  /\ undone' = IF name = "undo"
               THEN << [data |-> data, headers |-> headers, columnWidths |-> columnWidths] >>
               ELSE << >>

\* processFile(file), up to the start of the read.
ProcessFile(file) ==
  /\ Len(readers) < MaxReaders
  /\ Event("processFile")
  /\ isLoading' = TRUE
  /\ error' = ""
  /\ fileName' = file.name
  /\ readers' = Append(readers, file)
  /\ UNCHANGED << urlVars, tableVars, selectionVars, historyVars, columnWidths,
                  draggedHeader, errorTimers >>

\* The file of reader i is one the try block of reader.onload gets through.
parses(file) ==
  /\ file.result
  /\ extensionOf(file.name) \in { << "c", "s", "v" >>, << "x", "l", "s", "x" >>, << "x", "l", "s" >> }

\* headers of reader.onload: meta.fields of a csv, the keys of the first row of a sheet.
parsedHeaders(file) ==
  IF extensionOf(file.name) = << "c", "s", "v" >> THEN file.fields
  ELSE IF Len(file.rows) > 0 THEN file.fields ELSE << >>

\* The readers without reader i.
readersWithout(i) == SubSeq(readers, 1, i - 1) \o SubSeq(readers, i + 1, Len(readers))

\* reader.onload, the try block running to its end.
ReaderOnLoad(i) ==
  /\ i \in 1..Len(readers)
  /\ parses(readers[i])
  /\ LET file == readers[i]
         jsonData == file.rows
         hs == parsedHeaders(file)
         initialWidths == calculateInitialWidths(hs, jsonData)
         detectedCol == detectBestUrlColumn(hs, jsonData)
     IN  /\ Event("onload")
         /\ readers' = readersWithout(i)
         /\ data' = jsonData
         /\ headers' = hs
         /\ isLoading' = FALSE
         /\ error' = ""
         /\ fileName' = file.name
         /\ columnWidths' = initialWidths
         /\ history' = << [data |-> jsonData, headers |-> hs, columnWidths |-> initialWidths] >>
         /\ historyIndex' = 0
         /\ detected' = detectedCol
         /\ urlColumn' = IF detectedCol # << >> THEN detectedCol ELSE urlColumn
  /\ UNCHANGED << urlVars, mergeMode, mergeSourceColumns, mergeTargetColumn, baseUrlColumn,
                  draggedHeader, errorTimers >>

\* reader.onload, the try block throwing: no content, or an unsupported extension.
ReaderOnLoadError(i) ==
  /\ i \in 1..Len(readers)
  /\ ~parses(readers[i])
  /\ Event("onloadError")
  /\ readers' = readersWithout(i)
  /\ isLoading' = FALSE
  /\ error' = IF readers[i].result THEN "Only .csv and .xlsx files are supported."
                                   ELSE "File reading failed"
  /\ UNCHANGED << urlVars, tableVars, fileName, selectionVars, historyVars, columnWidths,
                  draggedHeader, errorTimers >>

\* undo()
Undo ==
  /\ historyIndex > 0
  /\ Event("undo")
  /\ historyIndex' = historyIndex - 1
  /\ data' = history[historyIndex].data
  /\ headers' = history[historyIndex].headers
  /\ columnWidths' = history[historyIndex].columnWidths
  /\ UNCHANGED << urlVars, detected, fileVars, selectionVars, history, draggedHeader,
                  readers, errorTimers >>

\* redo()
Redo ==
  /\ historyIndex < Len(history) - 1
  /\ Event("redo")
  /\ historyIndex' = historyIndex + 1
  /\ data' = history[historyIndex + 2].data
  /\ headers' = history[historyIndex + 2].headers
  /\ columnWidths' = history[historyIndex + 2].columnWidths
  /\ UNCHANGED << urlVars, detected, fileVars, selectionVars, history, draggedHeader,
                  readers, errorTimers >>

\* deleteColumn(headerToDelete), from the button of a column.
DeleteColumn(headerToDelete) ==
  /\ tableShown
  /\ headerToDelete \in Range(headers)
  /\ LET newHeaders == without(headers, headerToDelete)
         newData == [i \in 1..Len(data) |-> deleteFromRow(data[i], headerToDelete)]
         newWidths == omit(columnWidths, headerToDelete)
     IN  /\ Event("deleteColumn")
         /\ headers' = newHeaders
         /\ data' = newData
         /\ columnWidths' = newWidths
         /\ history' = pushed(history, historyIndex, newData, newHeaders, newWidths)
         /\ historyIndex' = historyIndex + 1
  /\ urlColumn' = IF urlColumn = headerToDelete THEN << >> ELSE urlColumn
  /\ baseUrlColumn' = IF baseUrlColumn = headerToDelete THEN << >> ELSE baseUrlColumn
  /\ mergeTargetColumn' = IF mergeTargetColumn = headerToDelete THEN << >> ELSE mergeTargetColumn
  /\ mergeSourceColumns' = without(mergeSourceColumns, headerToDelete)
  /\ UNCHANGED << urlVars, detected, fileVars, mergeMode, draggedHeader, readers, errorTimers >>

\* renameColumn(oldName, newName) returning early.
RenameRejected(oldName, newName) ==
  /\ tableShown
  /\ oldName \in Range(headers)
  /\ renameRejected(headers, oldName, newName)
  /\ Event("renameRejected")
  /\ IF newName = << >> \/ trim(newName) = << >> \/ oldName = newName
     THEN UNCHANGED << error, errorTimers >>
     ELSE /\ error' = "Column name already exists."
          /\ errorTimers' = errorTimers + 1
  /\ UNCHANGED << urlVars, tableVars, fileName, isLoading, selectionVars, historyVars,
                  columnWidths, draggedHeader, readers >>

\* setTimeout(() => setState(prev => ({ ...prev, error: null })), 3000)
ErrorTimeout ==
  /\ errorTimers > 0
  /\ Event("errorTimeout")
  /\ errorTimers' = errorTimers - 1
  /\ error' = ""
  /\ UNCHANGED << urlVars, tableVars, fileName, isLoading, selectionVars, historyVars,
                  columnWidths, draggedHeader, readers >>

\* renameColumn(oldName, newName) renaming the column.
RenameColumn(oldName, newName) ==
  /\ tableShown
  /\ oldName \in Range(headers)
  /\ ~renameRejected(headers, oldName, newName)
  /\ LET newHeaders == [i \in 1..Len(headers) |-> IF headers[i] = oldName THEN newName ELSE headers[i]]
         newData == [i \in 1..Len(data) |-> renameInRow(data[i], oldName, newName)]
         newWidths == renameInWidths(columnWidths, oldName, newName)
     IN  /\ Event("renameColumn")
         /\ headers' = newHeaders
         /\ data' = newData
         /\ columnWidths' = newWidths
         /\ history' = pushed(history, historyIndex, newData, newHeaders, newWidths)
         /\ historyIndex' = historyIndex + 1
  /\ urlColumn' = IF urlColumn = oldName THEN newName ELSE urlColumn
  /\ baseUrlColumn' = IF baseUrlColumn = oldName THEN newName ELSE baseUrlColumn
  /\ mergeTargetColumn' = IF mergeTargetColumn = oldName THEN newName ELSE mergeTargetColumn
  /\ mergeSourceColumns' =
       [i \in 1..Len(mergeSourceColumns) |->
          IF mergeSourceColumns[i] = oldName THEN newName ELSE mergeSourceColumns[i]]
  /\ UNCHANGED << urlVars, detected, fileVars, mergeMode, draggedHeader, readers, errorTimers >>

\* processSplit(), from the button that is disabled while no column is chosen.
ProcessSplit ==
  /\ tableShown
  /\ urlColumn # << >>
  /\ LET newData == [i \in 1..Len(data) |-> splitRow(data[i], urlColumn)]
         newHeaders == splitHeaders(headers, data, urlColumn)
         addedHeaders == SubSeq(newHeaders, Len(headers) + 1, Len(newHeaders))
         newWidths == calculateInitialWidths(addedHeaders, newData) @@ columnWidths
     IN  /\ Event("processSplit")
         /\ headers' = newHeaders
         /\ data' = newData
         /\ columnWidths' = newWidths
         /\ history' = pushed(history, historyIndex, newData, newHeaders, newWidths)
         /\ historyIndex' = historyIndex + 1
  /\ UNCHANGED << urlVars, detected, fileVars, selectionVars, draggedHeader, readers,
                  errorTimers >>

\* processColumnMerge(), from the button that is disabled while sources, target or,
\* in the utm_url mode, the base column are not chosen.
ProcessColumnMerge ==
  /\ tableShown
  /\ mergeSourceColumns # << >>
  /\ mergeTargetColumn # << >>
  /\ ~(mergeMode = "utm_url" /\ baseUrlColumn = << >>)
  /\ LET newData == [i \in 1..Len(data) |->
                       mergeRow(data[i], mergeMode, mergeSourceColumns, mergeTargetColumn,
                                baseUrlColumn)]
         newHeaders == pushNew(headers, mergeTargetColumn)
         newWidths == IF mergeTargetColumn \in Range(headers) THEN columnWidths
                      ELSE calculateInitialWidths(<< mergeTargetColumn >>, newData) @@ columnWidths
     IN  /\ Event("processColumnMerge")
         /\ headers' = newHeaders
         /\ data' = newData
         /\ columnWidths' = newWidths
         /\ history' = pushed(history, historyIndex, newData, newHeaders, newWidths)
         /\ historyIndex' = historyIndex + 1
  /\ UNCHANGED << urlVars, detected, fileVars, selectionVars, draggedHeader, readers,
                  errorTimers >>

\* setUrlColumn(e.target.value), from the options of the select.
SetUrlColumn(h) ==
  /\ tableShown
  /\ h \in Range(headers) \cup {<< >>}
  /\ urlColumn # h
  /\ Event("setUrlColumn")
  /\ urlColumn' = h
  /\ UNCHANGED << urlVars, tableVars, fileVars, mergeMode, mergeSourceColumns,
                  mergeTargetColumn, baseUrlColumn, historyVars, columnWidths,
                  draggedHeader, readers, errorTimers >>

\* setMergeMode(m)
SetMergeMode(m) ==
  /\ tableShown
  /\ mergeMode # m
  /\ Event("setMergeMode")
  /\ mergeMode' = m
  /\ UNCHANGED << urlVars, tableVars, fileVars, urlColumn, mergeSourceColumns,
                  mergeTargetColumn, baseUrlColumn, historyVars, columnWidths,
                  draggedHeader, readers, errorTimers >>

\* setBaseUrlColumn(e.target.value), from the select of the utm_url mode.
SetBaseUrlColumn(h) ==
  /\ tableShown
  /\ mergeMode = "utm_url"
  /\ h \in Range(headers) \cup {<< >>}
  /\ baseUrlColumn # h
  /\ Event("setBaseUrlColumn")
  /\ baseUrlColumn' = h
  /\ UNCHANGED << urlVars, tableVars, fileVars, urlColumn, mergeMode, mergeSourceColumns,
                  mergeTargetColumn, historyVars, columnWidths, draggedHeader, readers,
                  errorTimers >>

\* toggleMergeColumn(col)
ToggleMergeColumn(col) ==
  /\ tableShown
  /\ col \in Range(headers)
  /\ Event("toggleMergeColumn")
  /\ mergeSourceColumns' = IF col \in Range(mergeSourceColumns)
                           THEN without(mergeSourceColumns, col)
                           ELSE Append(mergeSourceColumns, col)
  /\ UNCHANGED << urlVars, tableVars, fileVars, urlColumn, mergeMode, mergeTargetColumn,
                  baseUrlColumn, historyVars, columnWidths, draggedHeader, readers,
                  errorTimers >>

\* setMergeTargetColumn(e.target.value)
SetMergeTargetColumn(t) ==
  /\ tableShown
  /\ mergeTargetColumn # t
  /\ Event("setMergeTargetColumn")
  /\ mergeTargetColumn' = t
  /\ UNCHANGED << urlVars, tableVars, fileVars, urlColumn, mergeMode, mergeSourceColumns,
                  baseUrlColumn, historyVars, columnWidths, draggedHeader, readers,
                  errorTimers >>

\* A resize of a column by its handle: onMouseDown, onMouseMove and the animation
\* frame that sets the width, onMouseUp.  The header cell is as wide as its
\* column width says.
OnMouseMove(header, deltaX) ==
  /\ tableShown
  /\ header \in Range(headers)
  /\ header \in DOMAIN columnWidths
  /\ newWidthOf(columnWidths[header], deltaX) # columnWidths[header]
  /\ Event("onMouseMove")
  /\ columnWidths' = resized(columnWidths, header, newWidthOf(columnWidths[header], deltaX))
  /\ UNCHANGED << urlVars, tableVars, fileVars, selectionVars, historyVars, draggedHeader,
                  readers, errorTimers >>

\* handleColDragStart(e, header), no resize or rename being in progress.
HandleColDragStart(header) ==
  /\ tableShown
  /\ header \in Range(headers)
  /\ Event("handleColDragStart")
  /\ draggedHeader' = header
  /\ UNCHANGED << urlVars, tableVars, fileVars, selectionVars, historyVars, columnWidths,
                  readers, errorTimers >>

\* handleColDrop(e, targetHeader) with nothing to move.
HandleColDropNothing(targetHeader) ==
  /\ tableShown
  /\ targetHeader \in Range(headers)
  /\ draggedHeader = << >> \/ draggedHeader = targetHeader
  /\ Event("handleColDropNothing")
  /\ draggedHeader' = << >>
  /\ UNCHANGED << urlVars, tableVars, fileVars, selectionVars, historyVars, columnWidths,
                  readers, errorTimers >>

\* handleColDrop(e, targetHeader) moving the dragged column.
HandleColDrop(targetHeader) ==
  /\ tableShown
  /\ targetHeader \in Range(headers)
  /\ draggedHeader # << >> /\ draggedHeader # targetHeader
  /\ LET newHeaders == droppedHeaders(headers, draggedHeader, targetHeader)
     IN  /\ Event("handleColDrop")
         /\ headers' = newHeaders
         /\ history' = pushed(history, historyIndex, data, newHeaders, columnWidths)
         /\ historyIndex' = historyIndex + 1
  /\ draggedHeader' = << >>
  /\ UNCHANGED << urlVars, data, detected, fileVars, selectionVars, columnWidths, readers,
                  errorTimers >>

\* handleColDragEnd()
HandleColDragEnd ==
  /\ draggedHeader # << >>
  /\ Event("handleColDragEnd")
  /\ draggedHeader' = << >>
  /\ UNCHANGED << urlVars, tableVars, fileVars, selectionVars, historyVars, columnWidths,
                  readers, errorTimers >>

\* The events of the editor.
NextApp ==
  \/ \E file \in Files : ProcessFile(file)
  \/ \E i \in 1..MaxReaders : ReaderOnLoad(i)
  \/ \E i \in 1..MaxReaders : ReaderOnLoadError(i)
  \/ Undo
  \/ Redo
  \/ \E h \in Range(headers) : DeleteColumn(h)
  \/ \E h \in Range(headers), n \in NewNames : RenameRejected(h, n)
  \/ ErrorTimeout
  \/ \E h \in Range(headers), n \in NewNames : RenameColumn(h, n)
  \/ ProcessSplit
  \/ ProcessColumnMerge
  \/ \E h \in Range(headers) \cup {<< >>} : SetUrlColumn(h)
  \/ \E m \in MergeModes : SetMergeMode(m)
  \/ \E h \in Range(headers) \cup {<< >>} : SetBaseUrlColumn(h)
  \/ \E h \in Range(headers) : ToggleMergeColumn(h)
  \/ \E t \in TargetNames \cup {<< >>} : SetMergeTargetColumn(t)
  \/ \E h \in Range(headers) : OnMouseMove(h, DeltaX)
  \/ \E h \in Range(headers) : HandleColDragStart(h)
  \/ \E h \in Range(headers) : HandleColDropNothing(h)
  \/ \E h \in Range(headers) : HandleColDrop(h)
  \/ HandleColDragEnd

SpecApp == Init /\ [][NextApp]_vars

\* The events of a column reorder and those that may come between the start of
\* the drag and the drop: deletes, undo, redo and file loads.
NextReorder ==
  \/ \E file \in Files : ProcessFile(file)
  \/ \E i \in 1..MaxReaders : ReaderOnLoad(i)
  \/ \E i \in 1..MaxReaders : ReaderOnLoadError(i)
  \/ Undo
  \/ Redo
  \/ \E h \in Range(headers) : DeleteColumn(h)
  \/ \E h \in Range(headers) : HandleColDragStart(h)
  \/ \E h \in Range(headers) : HandleColDropNothing(h)
  \/ \E h \in Range(headers) : HandleColDrop(h)
  \/ HandleColDragEnd

SpecReorder == Init /\ [][NextReorder]_vars

(***************************************************************************)
(* Properties of splitUrl and mergeUrl                                     *)
(***************************************************************************)

\* A value that is empty or all white space.
IsBlank(value) == \A i \in 1..Len(value) : value[i] = " "

\* The entries of an object whose value is not blank, in order.
NonBlankEntries(o) == SelectSeq(o, LAMBDA e : ~IsBlank(e[2]))

\* The naked-query condition as the specification words it.
NakedForm(text) ==
  /\ \E i \in 1..Len(text) : text[i] = "="
  /\ \/ \A i \in 1..Len(text) : text[i] \notin {".", "/"}
     \/ \E i \in 1..(Len(text) - 3) :
          /\ text[i] \in {"u", "U"}
          /\ text[i + 1] \in {"t", "T"}
          /\ text[i + 2] \in {"m", "M"}
          /\ text[i + 3] = "_"

\* The text before the first '#'.
BeforeFragment(s) ==
  IF \E i \in 1..Len(s) : s[i] = "#"
  THEN SubSeq(s, 1, (CHOOSE i \in 1..Len(s) : s[i] = "#" /\ \A j \in 1..(i - 1) : s[j] # "#") - 1)
  ELSE s

\* A string without leading or trailing white space.
IsTrimmed(s) == s = << >> \/ (s[1] # " " /\ s[Len(s)] # " ")

\* The last splitUrl returned the base and the parameters given to the last mergeUrl.
RoundTripOfMerge ==
  /\ AsMap(splitResult.params) = AsMap(inParams)
  /\ splitResult.cleanUrl = inCleanUrl

\* C1 as stated: for every cleanUrl without '?' and every params whose values are
\* all non-empty, split(merge(cleanUrl, params)) returns params and cleanUrl again.
C1_RoundTripAsStated ==
  ( /\ op = "splitOfMerge"
    /\ \A i \in 1..Len(inCleanUrl) : inCleanUrl[i] # "?"
    /\ \A i \in 1..Len(inParams) : inParams[i][2] # << >> )
  => RoundTripOfMerge

\* The arguments of mergeUrl for which the round trip is claimed after amendment.
C1_Precondition ==
  /\ \A i \in 1..Len(inCleanUrl) : inCleanUrl[i] \notin {"?", "#"}
  /\ IsTrimmed(inCleanUrl)
  /\ \A i \in 1..Len(inParams) : inParams[i][1] # << >> /\ ~IsBlank(inParams[i][2])
  /\ (inCleanUrl = << >> /\ inParams # << >>) => NakedForm(merged)
  /\ (inCleanUrl # << >> /\ inParams = << >>) => ~NakedForm(inCleanUrl)

\* C1 amended: for every cleanUrl without '?', '#' and surrounding white space and
\* every params with non-empty keys and non-blank values, split(merge(cleanUrl,
\* params)) returns params and cleanUrl again, provided the merged string is of
\* naked-query form when cleanUrl is empty, and cleanUrl is not of naked-query form
\* when params is empty.
C1_RoundTrip ==
  (op = "splitOfMerge" /\ C1_Precondition) => RoundTripOfMerge

\* A base with two parameters, one of them with characters to encode, was merged and split.
C1_Witness ==
  /\ op = "splitOfMerge"
  /\ C1_Precondition
  /\ inCleanUrl # << >>
  /\ Len(inParams) = 2
  /\ \E i \in 1..Len(inParams) : \E j \in 1..Len(inParams[i][2]) : inParams[i][2][j] = "%"
  /\ \E i \in 1..Len(inParams) : \E j \in 1..Len(inParams[i][1]) : inParams[i][1][j] = "&"

\* The second split reproduces the base of the first and its non-blank parameters.
RoundTripOfSplit ==
  /\ splitResult.cleanUrl = firstSplit.cleanUrl
  /\ AsMap(splitResult.params) = AsMap(NonBlankEntries(firstSplit.params))

\* C2 as stated: for every input u with (c, p) = split(u), split(merge(c, p)) has
\* cleanUrl c and the parameters of p whose value is not blank.
C2_RoundTripAsStated == op = "resplit" => RoundTripOfSplit

\* The results of the first split for which the round trip is claimed after amendment.
C2_Precondition ==
  LET c == firstSplit.cleanUrl
      p == NonBlankEntries(firstSplit.params)
  IN  /\ p = << >> => (IsTrimmed(c) /\ ~NakedForm(BeforeFragment(c)))
      /\ (c = << >> /\ p # << >>) => NakedForm(merged)

\* C2 amended: for every input u with (c, p) = split(u), split(merge(c, p)) has
\* cleanUrl c and the non-blank parameters of p, provided that, when p has no
\* non-blank parameter, c has no trailing white space and is not itself of
\* naked-query form, and that, when c is empty and p has a non-blank parameter,
\* the merged query string is of naked-query form.
C2_RoundTrip == (op = "resplit" /\ C2_Precondition) => RoundTripOfSplit

\* A query with a blank and a non-blank parameter was split, merged and split again.
C2_Witness ==
  /\ op = "resplit"
  /\ C2_Precondition
  /\ Len(firstSplit.params) = 2
  /\ Len(NonBlankEntries(firstSplit.params)) = 1
  /\ Len(splitResult.params) = 1

\* The last splitUrl found a query: a '?' before the fragment, or a naked query.
QueryFound ==
  LET text == BeforeFragment(trim(urlStr))
  IN  (\E i \in 1..Len(text) : text[i] = "?") \/ NakedForm(text)

\* The parameters are those of the input cut at its first '#'.
ParamsIgnoreFragment ==
  LET text == BeforeFragment(trim(urlStr))
  IN  splitResult.params = extractParams(locateQuery(text).searchPart)

\* cleanUrl has no '#' and is the cleanUrl of the input cut at its first '#'.
CleanUrlIgnoresFragment ==
  LET text == BeforeFragment(trim(urlStr))
  IN  /\ \A i \in 1..Len(splitResult.cleanUrl) : splitResult.cleanUrl[i] # "#"
      /\ splitResult.cleanUrl = locateQuery(text).cleanUrl

\* C3 as stated: in every branch the fragment is discarded entirely: cleanUrl has
\* no '#', and cleanUrl and params are those of the input cut at its first '#'.
C3_FragmentDiscardedAsStated ==
  op = "split" => (CleanUrlIgnoresFragment /\ ParamsIgnoreFragment)

\* C3 amended: params never holds anything from the first '#' onward; when a query
\* is found (standard form or naked query) cleanUrl has no '#' and nothing of the
\* fragment either; when no query is found cleanUrl is the whole trimmed input,
\* fragment included.
C3_FragmentDiscarded ==
  op = "split" =>
    /\ ParamsIgnoreFragment
    /\ IF QueryFound THEN CleanUrlIgnoresFragment
       ELSE splitResult.cleanUrl = trim(urlStr)

\* A query followed by a fragment with text of its own was split.
C3_Witness ==
  /\ op = "split"
  /\ QueryFound
  /\ splitResult.params # << >>
  /\ \E i \in 1..(Len(urlStr) - 1) : urlStr[i] = "#" /\ urlStr[i + 1] # " "

\* C4: an input whose trimmed, fragment-stripped text has no '?' is parsed whole as
\* the query, with cleanUrl "", when the text is of naked-query form; otherwise
\* params is empty and cleanUrl is the trimmed input.
C4_NakedClassification ==
  LET text == BeforeFragment(trim(urlStr))
  IN  (op = "split" /\ \A i \in 1..Len(text) : text[i] # "?") =>
        IF NakedForm(text)
        THEN /\ splitResult.cleanUrl = << >>
             /\ splitResult.params = collectParams(URLSearchParamsOf(text), << >>)
        ELSE /\ splitResult.params = << >>
             /\ splitResult.cleanUrl = trim(urlStr)

\* A text with '.' or '/' was taken as a naked query because of its utm_ marker.
C4_Witness ==
  LET text == BeforeFragment(trim(urlStr))
  IN  /\ op = "split"
      /\ \A i \in 1..Len(text) : text[i] # "?"
      /\ \E i \in 1..Len(text) : text[i] \in {".", "/"}
      /\ splitResult.cleanUrl = << >>
      /\ splitResult.params # << >>

\* The whole input was consumed as a naked query string.
ConsumedAsNakedQuery ==
  LET text == BeforeFragment(trim(urlStr))
  IN  (\A i \in 1..Len(text) : text[i] # "?") /\ NakedForm(text)

\* C5 as stated: when split returns no parameter, cleanUrl is the trimmed input,
\* and cleanUrl is "" only for a blank input or an input consumed as a naked query.
C5_InvariantAsStated ==
  op = "split" =>
    /\ splitResult.params = << >> =>
         \/ splitResult.cleanUrl = trim(urlStr)
         \/ (splitResult.cleanUrl = << >> /\ ConsumedAsNakedQuery)
    /\ splitResult.cleanUrl = << >> => (trim(urlStr) = << >> \/ ConsumedAsNakedQuery)

\* C5 amended: for every input whose trimmed, fragment-stripped text has no '?',
\* when split returns no parameter cleanUrl is the trimmed input, or is "" with the
\* input consumed as a naked query; for every input, cleanUrl is "" only when the
\* input is blank, was consumed as a naked query, or has nothing before its first '?'.
C5_Invariant ==
  LET text == BeforeFragment(trim(urlStr))
  IN  op = "split" =>
        /\ ((\A i \in 1..Len(text) : text[i] # "?") /\ splitResult.params = << >>) =>
             \/ splitResult.cleanUrl = trim(urlStr)
             \/ (splitResult.cleanUrl = << >> /\ ConsumedAsNakedQuery)
        /\ splitResult.cleanUrl = << >> =>
             \/ trim(urlStr) = << >>
             \/ ConsumedAsNakedQuery
             \/ (text # << >> /\ text[1] = "?")

\* An input with '=' and a fragment, padded with white space, gave no parameter.
C5_Witness ==
  /\ op = "split"
  /\ splitResult.params = << >>
  /\ splitResult.cleanUrl # << >>
  /\ splitResult.cleanUrl # urlStr
  /\ \E i \in 1..Len(urlStr) : urlStr[i] = "#"
  /\ \A i \in 1..Len(urlStr) : urlStr[i] # "?"

\* The query string at the end of the last mergeUrl result.
EmittedQuery ==
  IF inCleanUrl = << >> THEN merged
  ELSE IF Len(merged) > Len(inCleanUrl) THEN SubSeq(merged, Len(inCleanUrl) + 2, Len(merged))
  ELSE << >>

\* C6: the query string merge emits has a key=value pair for exactly the entries
\* whose value is not blank; a key with a blank value does not appear.
C6_BlankOmitted ==
  op = "merge" =>
    /\ SubSeq(merged, 1, Len(inCleanUrl)) = inCleanUrl
    /\ URLSearchParamsOf(EmittedQuery) = NonBlankEntries(inParams)

\* A merge of parameters of which one is all white space and one is not.
C6_Witness ==
  /\ op = "merge"
  /\ \E i \in 1..Len(inParams) : inParams[i][2] = << " " >>
  /\ \E i \in 1..Len(inParams) : ~IsBlank(inParams[i][2])

\* C7: for a non-empty cleanUrl, when every value is blank (or params is empty)
\* merge returns cleanUrl itself.
C7_NoBareQuestionMark ==
  (op = "merge" /\ inCleanUrl # << >> /\ NonBlankEntries(inParams) = << >>) =>
    merged = inCleanUrl

\* A merge of a non-empty base with parameters that are all blank.
C7_Witness ==
  /\ op = "merge"
  /\ inCleanUrl # << >>
  /\ Len(inParams) = 2
  /\ NonBlankEntries(inParams) = << >>

\* C8: with q the encoded query string of the non-blank parameters, non-empty,
\* merge returns q for an empty cleanUrl, cleanUrl?q for a cleanUrl without '?' and
\* cleanUrl&q for a cleanUrl with '?'; merge("", {}) is "".
C8_ConnectorRule ==
  LET q == paramsToString(NonBlankEntries(inParams))
  IN  op = "merge" =>
        /\ q # << >> =>
             merged = IF inCleanUrl = << >> THEN q
                      ELSE IF \A i \in 1..Len(inCleanUrl) : inCleanUrl[i] # "?"
                           THEN inCleanUrl \o << "?" >> \o q
                           ELSE inCleanUrl \o << "&" >> \o q
        /\ (inCleanUrl = << >> /\ inParams = << >>) => merged = << >>

\* A merge onto a base that already has a '?'.
C8_Witness ==
  /\ op = "merge"
  /\ \E i \in 1..Len(inCleanUrl) : inCleanUrl[i] = "?"
  /\ NonBlankEntries(inParams) # << >>
  /\ Len(merged) > Len(inCleanUrl)

(***************************************************************************)
(* Properties of detectBestUrlColumn                                       *)
(***************************************************************************)

\* The number of sampled rows.
SampledRows == IF Len(data) < 25 THEN Len(data) ELSE 25

\* The score of column h is above 5.
ScoresAboveFive(h) == scaledScore(h, data) > 5 * SampledRows

\* C9: the detector returns a header, one of maximal score, exactly when rows is
\* not empty and the maximal score is above 5; otherwise it returns "".
C9_Threshold ==
  op = "detect" =>
    IF data # << >> /\ \E i \in 1..Len(headers) : ScoresAboveFive(headers[i])
    THEN /\ \E i \in 1..Len(headers) : headers[i] = detected
         /\ LET best == scaledScore(detected, data)
            IN  \A i \in 1..Len(headers) : best >= scaledScore(headers[i], data)
    ELSE detected = << >>

\* A column was detected next to a column whose score is exactly 5.
C9_Witness ==
  /\ op = "detect"
  /\ detected # << >>
  /\ \E i \in 1..Len(headers) : scaledScore(headers[i], data) = 5 * SampledRows

\* Column h has a header-name rule or a content pattern in its favour.
HasSupport(h) ==
  headerPoints(h) > 0 \/ contentPoints(SubSeq(data, 1, SampledRows), h) > 0

\* C10 as stated: for a non-empty table, a column with a matching header-name rule
\* or a sampled value matching a content pattern makes the detector return a column.
C10_RejectsOnlyUnsupportedAsStated ==
  (op = "detect" /\ data # << >> /\ \E i \in 1..Len(headers) : HasSupport(headers[i]))
    => detected # << >>

\* Column h has support that lifts it above the threshold.
HasStrongSupport(h) ==
  LET content == contentPoints(SubSeq(data, 1, SampledRows), h)
  IN  \/ headerPoints(h) > 5
      \/ (headerPoints(h) > 0 /\ content > 0)
      \/ content > 5 * SampledRows

\* C10 amended: for a non-empty table, the detector returns a column when some
\* header matches a rule of more than 5 points, or matches the 5-point rule and
\* has a sampled value matching a content pattern, or has a weighted content
\* rate above 5 on its own.
C10_RejectsOnlyUnsupported ==
  (op = "detect" /\ data # << >> /\ \E i \in 1..Len(headers) : HasStrongSupport(headers[i]))
    => detected # << >>

\* The column with the 5-point header was detected thanks to half a row of content.
C10_Witness ==
  /\ op = "detect"
  /\ detected # << >>
  /\ headerPoints(detected) = 5
  /\ scaledScore(detected, data) = 10 * SampledRows

\* The position of the detected column in the header sequence.
DetectedIndex == CHOOSE i \in 1..Len(headers) : headers[i] = detected

\* C11: when the detector returns a column, every header before it has a strictly
\* lower score and no header after it has a higher one: of the headers sharing the
\* maximum the first is returned, a later header wins only with a higher score.
C11_FirstMaxWins ==
  (op = "detect" /\ detected # << >>) =>
    /\ \E i \in 1..Len(headers) : headers[i] = detected
    /\ LET best == scaledScore(detected, data)
       IN  \A j \in 1..Len(headers) :
             /\ j < DetectedIndex => scaledScore(headers[j], data) < best
             /\ j > DetectedIndex => scaledScore(headers[j], data) <= best

\* A column was detected ahead of a later column of the same score.
C11_Witness ==
  /\ op = "detect"
  /\ detected # << >>
  /\ \E j \in 1..Len(headers) :
       /\ j > DetectedIndex
       /\ scaledScore(headers[j], data) = scaledScore(detected, data)

\* C12: on a table of more than 25 rows the detector returns what it returns on
\* the first 25 rows alone, so two tables that agree on their first 25 rows get
\* the same column whatever their later rows are.
C12_SampleOnly ==
  (op = "detect" /\ Len(data) > 25) =>
    detected = detectBestUrlColumn(headers, SubSeq(data, 1, 25))

\* A table whose rows after the 25th would lift a column above the threshold got
\* no column.
C12_Witness ==
  /\ op = "detect"
  /\ Len(data) > 25
  /\ detected = << >>
  /\ \E i \in 1..Len(headers) :
       contentPoints(data, headers[i]) + headerPoints(headers[i]) * 25 > 5 * 25

\* The header-name points of the column names, rule by rule, added by hand.
PointsByHand(h) ==
  CASE h = << "n", "a", "m", "e" >> -> 0
    [] h = << "g", "c", "l", "i", "d" >> -> 5
    [] h = << "U", "R", "L" >> -> 25
    [] h = << "U", "t", "m", "_", "S", "o", "u", "r", "c", "e" >> -> 20 + 8
    [] h = StrongestName -> 20 + 15 + 12 + 10 + 8

\* The weights of the patterns that a cell value matches, added by hand: a blank
\* cell counts for nothing, the bare query for queryString, the padded URL for
\* all five patterns, the signal cell for utm and ampersand.
CellPointsByHand(cell) ==
  CASE cell \in {<< >>, << " " >>} -> 0
    [] cell = << "a", "?", "b", "=", "1" >> -> 10
    [] cell = SignalCell -> 50 + 25
    [] OTHER -> 50 + 30 + 20 + 10 + 25

\* The sum of CellPointsByHand over column h of rows.
RECURSIVE ColumnPointsByHand(_, _)
ColumnPointsByHand(rows, h) ==
  IF rows = << >> THEN 0
  ELSE CellPointsByHand(IF h \in DOMAIN rows[1] THEN rows[1][h] ELSE << >>)
       + ColumnPointsByHand(Tail(rows), h)

\* The rows that are sampled: the first 25, or all when there are fewer.
SampledPart == SubSeq(data, 1, IF Len(data) < 25 THEN Len(data) ELSE 25)

\* The score of column h by the formula, times the number of sampled rows.
ScoreByFormula(h) == PointsByHand(h) * Len(SampledPart) + ColumnPointsByHand(SampledPart, h)

\* C19: the score of every header is the sum of the points of all header-name rules
\* it matches plus (50*utm + 30*url + 20*trackingId + 10*queryString +
\* 25*ampersand) / sampleSize, the counts taken over the sampled rows and sampleSize
\* the number of sampled rows; the column detected is the first one with the
\* highest such score, if that is above 5.  Scores are compared times sampleSize.
C19_ScoreFormula ==
  (op = "detect" /\ Len(data) > 0) =>
    /\ \A i \in 1..Len(headers) : scaledScore(headers[i], data) = ScoreByFormula(headers[i])
    /\ \/ /\ detected = << >>
          /\ \A i \in 1..Len(headers) : ScoreByFormula(headers[i]) <= 5 * Len(SampledPart)
       \/ \E i \in 1..Len(headers) :
            /\ detected = headers[i]
            /\ ScoreByFormula(headers[i]) > 5 * Len(SampledPart)
            /\ \A j \in 1..Len(headers) : ScoreByFormula(headers[j]) <= ScoreByFormula(headers[i])
            /\ \A j \in 1..(i - 1) : ScoreByFormula(headers[j]) < ScoreByFormula(headers[i])

\* A column whose name matches two rules and whose sampled cells are partly empty
\* won over a column with more content points, by its stacked header points.
C19_Witness ==
  /\ op = "detect"
  /\ Len(data) = 2
  /\ detected = << "U", "t", "m", "_", "S", "o", "u", "r", "c", "e" >>
  /\ \E i \in 1..2 : data[i][detected] = << >>
  /\ \E i \in 1..2 : data[i][detected] # << >>
  /\ \E j \in 1..Len(headers) :
       /\ headers[j] # detected
       /\ ColumnPointsByHand(data, headers[j]) > ColumnPointsByHand(data, detected)

\* Column h has a name that matches no header-name rule and, in every sampled row,
\* a value containing '&', '=' and 'utm_source='.
NeutralWithSignals(h) ==
  /\ LET lowerH == toLowerCase(h)
     IN  /\ lowerH \notin { << "u", "r", "l" >>, << "l", "i", "n", "k" >>, << "g" >>,
                            << "o", "r", "i", "g", "i", "n", "a", "l", "_", "u", "r", "l" >>,
                            << "g", "c", "l", "i", "d" >>,
                            << "c", "l", "i", "c", "k", "_", "i", "d" >> }
         /\ \A part \in { << "u", "t", "m" >>,
                           << "l", "a", "n", "d", "i", "n", "g", "_", "p", "a", "g", "e" >>,
                           << "d", "e", "s", "t", "i", "n", "a", "t", "i", "o", "n" >>,
                           << "c", "a", "m", "p", "a", "i", "g", "n" >>,
                           << "s", "o", "u", "r", "c", "e" >>,
                           << "m", "e", "d", "i", "u", "m" >> } : ~includes(lowerH, part)
  /\ \A i \in 1..Len(SampledPart) :
       /\ h \in DOMAIN SampledPart[i]
       /\ includes(SampledPart[i][h], << "&" >>)
       /\ includes(SampledPart[i][h], << "=" >>)
       /\ includes(SampledPart[i][h],
                   << "u", "t", "m", "_", "s", "o", "u", "r", "c", "e", "=" >>)

\* The sampled values of column h are all empty.
AllEmpty(h) ==
  \A i \in 1..Len(SampledPart) :
    h \notin DOMAIN SampledPart[i] \/ SampledPart[i][h] = << >>

\* C20: when a column with a neutral name has '&', '=' and 'utm_source=' in every
\* sampled row, the detector returns a column, and never one whose sampled values
\* are all empty, whatever the names and the order of the columns.
C20_ContentDominates ==
  (op = "detect" /\ Len(data) > 0 /\ \E i \in 1..Len(headers) : NeutralWithSignals(headers[i])) =>
    /\ \E i \in 1..Len(headers) : detected = headers[i]
    /\ ~AllEmpty(detected)

\* The neutral column won over the column of the strongest name, which stands
\* first and is empty.
C20_Witness ==
  /\ op = "detect"
  /\ headers = << StrongestName, NeutralName >>
  /\ AllEmpty(StrongestName)
  /\ NeutralWithSignals(NeutralName)
  /\ detected = NeutralName

(***************************************************************************)
(* Properties of the table editor                                          *)
(***************************************************************************)

\* The keys of the parameters that splitUrl finds in column c of the rows.
KeysFoundIn(rows, c) ==
  UNION {KeySet(splitUrl(cellOf(rows[i], c)).params) : i \in 1..Len(rows)}

\* No name occurs twice in hs.
NoDuplicates(hs) == \A i, j \in 1..Len(hs) : i # j => hs[i] # hs[j]

\* C13: a split keeps the headers it finds, in their order, and appends to them
\* 'Clean URL', first, if it was no header, and every parameter key found in a row
\* of the chosen column that was no header, each once, and nothing else.
C13_SplitColumns ==
  [][op' = "processSplit" =>
       LET added == SubSeq(headers', Len(headers) + 1, Len(headers'))
       IN  /\ Len(headers') >= Len(headers)
           /\ SubSeq(headers', 1, Len(headers)) = headers
           /\ Range(added) = ({CleanUrlHeader} \cup KeysFoundIn(data, urlColumn)) \ Range(headers)
           /\ NoDuplicates(added)
           /\ CleanUrlHeader \in Range(added) => added[1] = CleanUrlHeader
    ]_vars

\* A split of the url column of the first file: 'Clean URL' and x were added, the
\* key k, a header already, and the key 'Clean URL' were not added again.
C13_Witness ==
  /\ op = "processSplit"
  /\ headers = << UrlName, KName, CleanUrlHeader, << "x" >> >>

\* P of C14: the selected source columns with the cells of the row.
SourceParams(row) ==
  [i \in 1..Len(mergeSourceColumns) |->
     << mergeSourceColumns[i], cellOf(row, mergeSourceColumns[i]) >>]

\* C14: in the utm_params and utm_url modes a merge writes, in every row, the
\* result of mergeUrl(base, P) to the target column, P being the selected source
\* columns with the cells of the row, base being "" in the utm_params mode and the
\* cell of the base column in the utm_url mode.
C14_MergeIsMerger ==
  [][(op' = "processColumnMerge" /\ mergeMode \in {"utm_params", "utm_url"}) =>
       \A i \in 1..Len(data) :
         cellOf(data'[i], mergeTargetColumn) =
           mergeUrl(IF mergeMode = "utm_params" THEN << >> ELSE cellOf(data[i], baseUrlColumn),
                    SourceParams(data[i]))
    ]_vars

\* C15: after a file is loaded the column to split is the column the detector
\* returns for the headers and rows of that file, none when it returns "".
C15_PreSelection ==
  op = "onload" => urlColumn = detectBestUrlColumn(headers, data)

\* C16: the headers of the table are pairwise distinct.
C16_UniqueHeaders == NoDuplicates(headers)

\* A rename to the name of another column was refused after a split.
C16_Witness ==
  /\ op = "renameRejected"
  /\ error = "Column name already exists."
  /\ CleanUrlHeader \in Range(headers)
  /\ Len(history) > 1

(***************************************************************************)
(* Further properties of splitUrl                                          *)
(***************************************************************************)

\* The trimmed, fragment-stripped text of the last splitUrl.
StrippedText == BeforeFragment(trim(urlStr))

\* The position of the first '?' of text.
FirstQuestionMark(text) ==
  CHOOSE i \in 1..Len(text) : text[i] = "?" /\ \A k \in 1..(i - 1) : text[k] # "?"

\* The text after the first '?' of the stripped text: the raw query.
RawQuery == SubSeq(StrippedText, FirstQuestionMark(StrippedText) + 1, Len(StrippedText))

\* The pairs of a raw query, every character of it taken literally: the pieces
\* between '&', each cut at its first '=' and decoded.
LiteralPairs(raw) ==
  LET pieces == SelectSeq(split(raw, "&"), LAMBDA piece : piece # << >>)
  IN  [i \in 1..Len(pieces) |-> parsePair(pieces[i])]

\* The parameters with a non-empty key among pairs, the last value of each key.
LastValues(pairs) ==
  {pairs[i] : i \in {n \in 1..Len(pairs) :
                      /\ pairs[n][1] # << >>
                      /\ \A m \in (n + 1)..Len(pairs) : pairs[m][1] # pairs[n][1]}}

\* C17 as stated: for an input whose stripped text has a '?', cleanUrl is the text
\* before the first '?', and the parameters are those of the text after it, every
\* later '?' being a literal character of a key or value.
C17_SplitPointAsStated ==
  (op = "split" /\ \E i \in 1..Len(StrippedText) : StrippedText[i] = "?") =>
    /\ splitResult.cleanUrl = SubSeq(StrippedText, 1, FirstQuestionMark(StrippedText) - 1)
    /\ AsMap(splitResult.params) = LastValues(LiteralPairs(RawQuery))

\* C17 amended: for an input whose stripped text has a '?', cleanUrl is the text
\* before the first '?', and the parameters are those of the text after it; a
\* later '?' never starts a new split and is a literal character of a key or
\* value, except a '?' that directly follows the first one, which is dropped.
C17_SplitPoint ==
  (op = "split" /\ \E i \in 1..Len(StrippedText) : StrippedText[i] = "?") =>
    /\ splitResult.cleanUrl = SubSeq(StrippedText, 1, FirstQuestionMark(StrippedText) - 1)
    /\ AsMap(splitResult.params) =
         LastValues(LiteralPairs(IF RawQuery # << >> /\ RawQuery[1] = "?"
                                 THEN Tail(RawQuery) ELSE RawQuery))

\* An input with a second '?' that ended up inside a value.
C17_Witness ==
  /\ op = "split"
  /\ splitResult.cleanUrl = << "a" >>
  /\ \E i \in 1..Len(splitResult.params) :
       \E k \in 1..Len(splitResult.params[i][2]) : splitResult.params[i][2][k] = "?"

\* The raw query that the last splitUrl handed to the codec.
SearchPart == locateQuery(trim(urlStr)).searchPart

C21_HistoryConsistent ==
  \/ /\ history = << >>
     /\ historyIndex = -1
     /\ data = << >>
     /\ headers = << >>
  \/ /\ 0 <= historyIndex
     /\ historyIndex < Len(history)
     /\ data = history[historyIndex + 1].data
     /\ headers = history[historyIndex + 1].headers

\* An edit made after an undo: the entry that was undone is gone, the history
\* ends with the table shown.
C21_Witness ==
  /\ op \in {"deleteColumn", "renameColumn", "processSplit", "handleColDrop"}
  /\ events = 5
  /\ historyIndex = 1
  /\ Len(history) = 2
  /\ data = history[2].data
  /\ headers = history[2].headers

\* C22: an undo immediately followed by a redo restores the data, the headers and
\* the column widths to the values they had before the undo, also when a column
\* was resized before.
C22_UndoRedoInverse ==
  [][(op = "undo" /\ op' = "redo") =>
       /\ data' = undone[1].data
       /\ headers' = undone[1].headers
       /\ columnWidths' = undone[1].columnWidths]_vars

\* C23: in every reachable state the column chosen for the split and the base-URL
\* column are each empty or one of the current headers, and every chosen merge
\* source column is one of the current headers.
C23_NoDanglingSelection ==
  /\ urlColumn \in Range(headers) \cup {<< >>}
  /\ baseUrlColumn \in Range(headers) \cup {<< >>}
  /\ \A i \in 1..Len(mergeSourceColumns) : mergeSourceColumns[i] \in Range(headers)

\* C24: in every row, processSplit changes only the 'Clean URL' cell and the cells
\* of the parameter-key columns that this split adds to the headers; every column
\* that was a header before, the split column among them, keeps its value, and
\* the 'Clean URL' cell is the cleanUrl that splitUrl returns for the row.
C24_SplitFrame ==
  [][op' = "processSplit" =>
       \A i \in 1..Len(data) :
         /\ \A h \in (DOMAIN data[i] \cup DOMAIN data'[i] \cup Range(headers)) :
              (h # CleanUrlHeader /\ h \notin (Range(headers') \ Range(headers))) =>
                /\ (h \in DOMAIN data'[i]) <=> (h \in DOMAIN data[i])
                /\ cellOf(data'[i], h) = cellOf(data[i], h)
         /\ cellOf(data'[i], CleanUrlHeader) = splitUrl(cellOf(data[i], urlColumn)).cleanUrl]_vars

\* C25: whatever deletes, undos, redos and loads come between the start of a drag
\* and the drop, a drop that moves a column leaves the set of headers as it was:
\* no header is removed and none is inserted that is not in the table.
C25_DropPermutes ==
  [][op' = "handleColDrop" =>
       /\ Range(headers') = Range(headers)
       /\ Len(headers') = Len(headers)]_vars

\* A step of a file load that fails: processFile on a file that reader.onload
\* will not get through, or that reader.onload throwing.
FailedLoadStep ==
  \/ op' = "onloadError"
  \/ op' = "processFile" /\ ~parses(readers'[Len(readers')])

\* C26: while a table is loaded, a file load that fails leaves the data, the
\* headers, the file name used for the export and the undo history as they were.
C26_FailedLoadFrame ==
  [][(tableShown /\ FailedLoadStep) =>
       /\ data' = data
       /\ headers' = headers
       /\ fileName' = fileName
       /\ history' = history
       /\ historyIndex' = historyIndex]_vars

=============================================================================
